---------------------------- MODULE Spec2Model ----------------------------
(***************************************************************************)
(* Model of static/script.js: the map front-end that loads the network     *)
(* list and the unit list, filters and sorts the units according to the    *)
(* form controls and renders one marker per geocoded unit in a clustered   *)
(* or a flat Leaflet layer.                                                *)
(*                                                                         *)
(* Encoding of JavaScript values:                                          *)
(*   - a string is a tuple of one-character strings, <<"S","P">>;          *)
(*   - a missing string field (null / undefined) is Null;                  *)
(*   - a coordinate is <<n>> (the number n) or NoCoord (null / undefined); *)
(*   - a marker is its position <<lat, lon>>.                              *)
(***************************************************************************)
EXTENDS Integers, Sequences, FiniteSets, TLC

\* ------------------------------------------------------------------------
\* Bounds of the model
\* ------------------------------------------------------------------------
\* Longest unit list built from SmallCatalogue.
MaxUnits == 2

\* ------------------------------------------------------------------------
\* Strings
\* ------------------------------------------------------------------------
Null == <<"null">>
NoCoord == <<>>

Lower == <<"a","b","c","d","e","f","g","h","i","j","k","l","m",
           "n","o","p","q","r","s","t","u","v","w","x","y","z">>
Upper == <<"A","B","C","D","E","F","G","H","I","J","K","L","M",
           "N","O","P","Q","R","S","T","U","V","W","X","Y","Z">>
\* Characters that sort before the letters, in collation order.
NonLetters == <<" ", "-", ".", "0", "1", "2">>

Range(s) == { s[i] : i \in DOMAIN s }

Chars == Range(Lower) \cup Range(Upper) \cup Range(NonLetters)

IsUpper(c) == \E i \in DOMAIN Upper : Upper[i] = c

\* String.prototype.toLowerCase, character by character.
LowerOf ==
  [ c \in Chars |->
      IF IsUpper(c) THEN Lower[CHOOSE i \in DOMAIN Upper : Upper[i] = c] ELSE c ]

ToLowerChar(c) == LowerOf[c]

toLowerCase(s) == [ i \in DOMAIN s |-> ToLowerChar(s[i]) ]

\* String.prototype.trim: drops the white space at both ends.
RECURSIVE TrimLeft(_)
TrimLeft(s) ==
  IF s # <<>> /\ Head(s) = " " THEN TrimLeft(Tail(s)) ELSE s

RECURSIVE TrimRight(_)
TrimRight(s) ==
  IF s # <<>> /\ s[Len(s)] = " " THEN TrimRight(SubSeq(s, 1, Len(s) - 1)) ELSE s

trim(s) == TrimRight(TrimLeft(s))

\* String.prototype.includes / Array.prototype.includes.
includes(s, sub) ==
  \E i \in 0 .. (Len(s) - Len(sub)) : SubSeq(s, i + 1, i + Len(sub)) = sub

arrayIncludes(arr, x) == \E i \in DOMAIN arr : arr[i] = x

\* JavaScript truthiness of a string-or-missing value and of a coordinate.
Truthy(s) == s # Null /\ s # <<>>
TruthyCoord(c) == c # NoCoord /\ c[1] # 0

\* (s || '')
OrEmpty(s) == IF Truthy(s) THEN s ELSE <<>>

safeText(s) == OrEmpty(s)

normalizeString_NoLower(s) == trim(safeText(s))

normalizeString(s) == toLowerCase(trim(safeText(s)))

\* String.prototype.localeCompare under the default collation: the strings
\* are compared letter by letter ignoring case (white space and punctuation
\* before digits before letters, a prefix before its extensions); strings
\* equal up to case are ordered lower case first.
WeightOf ==
  [ c \in Chars |->
      IF \E i \in DOMAIN NonLetters : NonLetters[i] = c
        THEN CHOOSE i \in DOMAIN NonLetters : NonLetters[i] = c
        ELSE Len(NonLetters) + (CHOOSE i \in DOMAIN Lower : Lower[i] = LowerOf[c]) ]

Weight(c) == WeightOf[c]

RECURSIVE PrimaryCompare(_, _, _)
PrimaryCompare(a, b, i) ==
  IF i > Len(a) /\ i > Len(b) THEN 0
  ELSE IF i > Len(a) THEN -1
  ELSE IF i > Len(b) THEN 1
  ELSE IF Weight(a[i]) < Weight(b[i]) THEN -1
  ELSE IF Weight(a[i]) > Weight(b[i]) THEN 1
  ELSE PrimaryCompare(a, b, i + 1)

RECURSIVE CaseCompare(_, _, _)
CaseCompare(a, b, i) ==
  IF i > Len(a) THEN 0
  ELSE IF a[i] = b[i] THEN CaseCompare(a, b, i + 1)
  ELSE IF IsUpper(a[i]) THEN 1 ELSE -1

localeCompare(a, b) ==
  LET p == PrimaryCompare(a, b, 1)
  IN  IF p # 0 THEN p ELSE CaseCompare(a, b, 1)


\* ------------------------------------------------------------------------
\* Data: network names, units, control values
\* ------------------------------------------------------------------------
NovoMix    == <<"N","o","v","o"," ","M","i","x">>
RedeMix    == <<"R","e","d","e"," ","M","i","x">>
Hiperideal == <<"H","i","p","e","r","i","d","e","a","l">>

\* The arrays /unidades/redes may answer.
RedesLists == { <<>>, <<NovoMix>>, <<NovoMix, RedeMix>> }

Todos == <<"T","o","d","o","s">>
SP == <<"S","P">>
RJ == <<"R","J">>

Alpha == [ nome |-> <<"A","l">>, rede |-> NovoMix, cnpj |-> <<"1","A">>,
           endereco_original |-> <<"R","-","S","P">>, estado |-> SP,
           latitude |-> <<-12>>, longitude |-> <<-38>> ]
Beta  == [ nome |-> <<"B","e">>, rede |-> RedeMix, cnpj |-> <<"2">>,
           endereco_original |-> <<"R","-","R","J">>, estado |-> RJ,
           latitude |-> <<-22>>, longitude |-> <<-43>> ]
\* no network, no state field (only the address names the state), on the equator
Gamma == [ nome |-> <<"a","l">>, rede |-> Null, cnpj |-> Null,
           endereco_original |-> <<"r","-","s","p">>, estado |-> Null,
           latitude |-> <<0>>, longitude |-> <<-50>> ]

SmallCatalogue == { Alpha, Beta, Gamma }

EstadoVals   == { Null, <<>>, SP, <<"s","p">>, <<"S","P"," ">>, RJ }
EnderecoVals == { Null, <<"R","-","S","P">>, <<"r","-","s","p">>,
                  <<"R"," ","S","P">>, <<"R","-","R","J">> }
NomeVals     == { Null, <<>>, <<"A","l">>, <<"A","L">>, <<"a","l"," ">>, <<"B","e">> }
CnpjVals     == { Null, <<"1","A">>, <<"1","a">>, <<"2">> }
RedeVals     == { Null, NovoMix, toLowerCase(NovoMix), RedeMix, Hiperideal }
CoordVals    == { NoCoord, <<0>>, <<-12>> }

\* Units that vary the fields one filter or the marker factory reads.
RichCatalogue ==
       { [Alpha EXCEPT !.estado = e, !.endereco_original = a] :
             e \in EstadoVals, a \in EnderecoVals }
  \cup { [Alpha EXCEPT !.nome = n] : n \in NomeVals }
  \cup { [Alpha EXCEPT !.cnpj = c] : c \in CnpjVals }
  \cup { [Alpha EXCEPT !.rede = r] : r \in RedeVals }
  \cup { [Alpha EXCEPT !.latitude = la, !.longitude = lo] :
             la \in CoordVals, lo \in CoordVals }

SeqsUpTo(S, n) == UNION { [ 1 .. k -> S ] : k \in 0 .. n }

\* The arrays /unidades/all may answer.
UnitLists == SeqsUpTo(SmallCatalogue, MaxUnits) \cup { <<u>> : u \in RichCatalogue }

\* Values the user can give the controls.
EstadoOptions == { Todos, SP }
CnpjInputs    == { <<>>, <<" ","1","A">> }
NomeInputs    == { <<>>, <<" ","A","L">> }
OrdenarOptions == { "nome_az", "nome_za", "rede_az", "rede_za" }

\* ------------------------------------------------------------------------
\* Filter engine (applyFilters)
\* ------------------------------------------------------------------------
\* A checkbox row is [value, checked]; the criteria read from the form.
lerFiltrosForm(bx, est, cn, nm, ord) ==
  [ redes   |-> LET sel == SelectSeq(bx, LAMBDA b : b.checked)
                IN  [ i \in DOMAIN sel |-> sel[i].value ],
    estado  |-> est,
    cnpj    |-> trim(cn),
    nome    |-> trim(nm),
    ordenar |-> ord ]

redeAccepts_NoGuard(u, f) == arrayIncludes(f.redes, u.rede)

\* if(f.redes.length) filter(u => f.redes.includes(u.rede))
redeAccepts(u, f) ==
  Len(f.redes) = 0 \/ arrayIncludes(f.redes, u.rede)

\* if(f.estado && f.estado !== 'Todos') filter(estado field or address)
estadoAccepts(u, f) ==
  \/ ~(Truthy(f.estado) /\ f.estado # Todos)
  \/ Truthy(u.estado) /\ normalizeString(u.estado) = normalizeString(f.estado)
  \/ /\ Truthy(u.endereco_original)
     /\ includes(normalizeString(u.endereco_original),
                 <<"-">> \o normalizeString(f.estado))

\* if(f.cnpj) filter(u => u.cnpj && u.cnpj.includes(f.cnpj))
cnpjAccepts(u, f) ==
  ~Truthy(f.cnpj) \/ (Truthy(u.cnpj) /\ includes(u.cnpj, f.cnpj))

nomeAccepts_CaseSensitive(u, f) ==
  ~Truthy(f.nome) \/ (Truthy(u.nome) /\ includes(trim(u.nome), f.nome))

\* if(f.nome) filter(normalized name includes normalized criterion)
nomeAccepts(u, f) ==
  \/ ~Truthy(f.nome)
  \/ Truthy(u.nome) /\ includes(normalizeString(u.nome), normalizeString(f.nome))

\* The comparator of the switch on f.ordenar; an unknown mode sorts nothing.
compareBy(ord, a, b) ==
  CASE ord = "nome_az" -> localeCompare(OrEmpty(a.nome), OrEmpty(b.nome))
    [] ord = "nome_za" -> localeCompare(OrEmpty(b.nome), OrEmpty(a.nome))
    [] ord = "rede_az" -> localeCompare(OrEmpty(a.rede), OrEmpty(b.rede))
    [] ord = "rede_za" -> localeCompare(OrEmpty(b.rede), OrEmpty(a.rede))
    [] OTHER -> 0

\* Array.prototype.sort is stable: an element goes after the ones not greater.
RECURSIVE insertSorted(_, _, _)
insertSorted(u, s, ord) ==
  IF s = <<>> THEN <<u>>
  ELSE IF compareBy(ord, Head(s), u) <= 0
         THEN <<Head(s)>> \o insertSorted(u, Tail(s), ord)
         ELSE <<u>> \o s

RECURSIVE sortInto(_, _, _)
sortInto(s, acc, ord) ==
  IF s = <<>> THEN acc
  ELSE sortInto(Tail(s), insertSorted(Head(s), acc, ord), ord)

sort(s, ord) == sortInto(s, <<>>, ord)

\* The list applyFilters hands to atualizarMapa.
resultado(us, f) ==
  LET r1 == SelectSeq(us, LAMBDA u : redeAccepts(u, f))
      r2 == SelectSeq(r1, LAMBDA u : estadoAccepts(u, f))
      r3 == SelectSeq(r2, LAMBDA u : cnpjAccepts(u, f))
      r4 == SelectSeq(r3, LAMBDA u : nomeAccepts(u, f))
  IN  sort(r4, f.ordenar)

unidadesAfterPass_InPlace(us, f) == sort(us, f.ordenar)

\* let resultado = [...unidades]: the pass filters and sorts a copy, the
\* loaded list keeps its elements and their order.
unidadesAfterPass(us, f) == us

\* ------------------------------------------------------------------------
\* Map renderer
\* ------------------------------------------------------------------------
\* null, or a marker at [latitude, longitude]: the markers made for u.
criarMarcador(u) ==
  IF ~TruthyCoord(u.latitude) \/ ~TruthyCoord(u.longitude)
    THEN <<>>
    ELSE << <<u.latitude[1], u.longitude[1]>> >>

RECURSIVE markersOf(_)
markersOf(list) ==
  IF list = <<>> THEN <<>>
  ELSE criarMarcador(Head(list)) \o markersOf(Tail(list))

\* ------------------------------------------------------------------------
\* State
\* ------------------------------------------------------------------------
VARIABLES
  pc,              \* where carregarDados stands
  req,             \* per endpoint: idle, inflight or how the request ended
  fetches,         \* per endpoint: the number of fetch() calls issued
  redesRendered,   \* the number of renderRedes calls
  boxes,           \* the network checkboxes of #filtroRedeContainer
  selectEstado, inputCNPJ, inputNome, selectOrdenar, toggleClusters,
  unidades,        \* the loaded unit list (when it is an array)
  unidadesIsArray, \* FALSE: /unidades/all answered JSON that is no array
  unidadesAtuais,
  clusterGroup,    \* the markers held by the cluster layer
  markersLayer,    \* the markers held by the flat layer
  onMap,           \* which of the two layers map.hasLayer
  clustersAtivos,
  status,          \* text of #loading-status
  lastOp,          \* what ran last: script, initMap, carregarDados,
                   \* onFiltroChange, toggleClusters or btnClear
  passes           \* applyFilters calls made by the handler that ran last

controls == << boxes, selectEstado, inputCNPJ, inputNome, selectOrdenar,
               toggleClusters >>
loadVars == << pc, req, fetches, redesRendered >>
dataVars == << unidades, unidadesIsArray >>
mapVars  == << unidadesAtuais, clusterGroup, markersLayer, onMap >>
vars == << pc, req, fetches, redesRendered, boxes, selectEstado, inputCNPJ,
           inputNome, selectOrdenar, toggleClusters, unidades,
           unidadesIsArray, unidadesAtuais, clusterGroup, markersLayer,
           onMap, clustersAtivos, status, lastOp, passes >>

Endpoints == { "redes", "all" }

\* Script evaluated, window 'load' not yet fired: the module-level state,
\* and the controls at the defaults the clear button restores.
Init ==
  /\ pc = "start"
  /\ req = [ e \in Endpoints |-> "idle" ]
  /\ fetches = [ e \in Endpoints |-> 0 ]
  /\ redesRendered = 0
  /\ boxes = <<>>
  /\ selectEstado = Todos
  /\ inputCNPJ = <<>>
  /\ inputNome = <<>>
  /\ selectOrdenar = "nome_az"
  /\ toggleClusters = TRUE
  /\ unidades = <<>>
  /\ unidadesIsArray = TRUE
  /\ unidadesAtuais = <<>>
  /\ clusterGroup = <<>>
  /\ markersLayer = <<>>
  /\ onMap = {}
  /\ clustersAtivos = TRUE
  /\ status = ""
  /\ lastOp = "script"
  /\ passes = 0

\* ------------------------------------------------------------------------
\* atualizarMapa and applyFilters as state changes
\* ------------------------------------------------------------------------
layersAfterRemove_KeepFlat(attached) == attached \ { "clusterGroup" }

\* map.removeLayer of both layers when attached
layersAfterRemove(attached) == attached \ { "clusterGroup", "markersLayer" }

clusterAfterRender_NoClear(old, ms, ca) == IF ca THEN old \o ms ELSE old

\* clusterGroup.clearLayers(), then clusterGroup.addLayer(markersLayer)
\* when clustering is on: the cluster layer takes the flat layer's markers.
clusterAfterRender(old, ms, ca) == IF ca THEN ms ELSE <<>>

atualizarMapa(list, ca) ==
  /\ unidadesAtuais' = list
  /\ markersLayer' = markersOf(list)
  /\ clusterGroup' = clusterAfterRender(clusterGroup, markersOf(list), ca)
  /\ onMap' = layersAfterRemove(onMap)
                \cup (IF ca THEN { "clusterGroup" } ELSE { "markersLayer" })

\* One call of applyFilters on the list us with the controls given. When
\* us is no array, [...unidades] throws before anything is rendered and the
\* promise of the async function is rejected unobserved.
applyFilters(us, isArr, bx, est, cn, nm, ord, ca) ==
  LET f == lerFiltrosForm(bx, est, cn, nm, ord)
  IN  /\ passes' = 1
      /\ IF isArr
           THEN /\ unidades' = unidadesAfterPass(us, f)
                /\ atualizarMapa(resultado(us, f), ca)
           ELSE /\ unidades' = us
                /\ UNCHANGED mapVars

statusAfterPass(isArr) ==
  IF isArr THEN "Dados atualizados." ELSE "Filtrando..."

\* A handler that changes controls and calls applyFilters once.
filterEvent(bx, est, cn, nm, ord) ==
  /\ pc # "start"
  /\ boxes' = bx
  /\ selectEstado' = est
  /\ inputCNPJ' = cn
  /\ inputNome' = nm
  /\ selectOrdenar' = ord
  /\ applyFilters(unidades, unidadesIsArray, bx, est, cn, nm, ord, clustersAtivos)
  /\ status' = statusAfterPass(unidadesIsArray)
  /\ lastOp' = "onFiltroChange"
  /\ UNCHANGED << loadVars, unidadesIsArray, toggleClusters, clustersAtivos >>

\* ------------------------------------------------------------------------
\* Control handlers (renderRedes and bindControls listeners)
\* ------------------------------------------------------------------------
\* A network checkbox is clicked.
BoxChange ==
  \E i \in DOMAIN boxes :
    filterEvent([ boxes EXCEPT ![i].checked = ~boxes[i].checked ],
                selectEstado, inputCNPJ, inputNome, selectOrdenar)

EstadoChange ==
  \E v \in EstadoOptions \ { selectEstado } :
    filterEvent(boxes, v, inputCNPJ, inputNome, selectOrdenar)

CNPJInput ==
  \E v \in CnpjInputs \ { inputCNPJ } :
    filterEvent(boxes, selectEstado, v, inputNome, selectOrdenar)

NomeInput ==
  \E v \in NomeInputs \ { inputNome } :
    filterEvent(boxes, selectEstado, inputCNPJ, v, selectOrdenar)

OrdenarChange ==
  \E v \in OrdenarOptions \ { selectOrdenar } :
    filterEvent(boxes, selectEstado, inputCNPJ, inputNome, v)

\* The second event of a change ('change' after 'input'): no control changes.
onFiltroChange ==
  filterEvent(boxes, selectEstado, inputCNPJ, inputNome, selectOrdenar)

\* 'change' of #toggleClusters
ToggleClustersChange ==
  /\ pc # "start"
  /\ toggleClusters' = ~toggleClusters
  /\ clustersAtivos' = ~toggleClusters
  /\ applyFilters(unidades, unidadesIsArray, boxes, selectEstado, inputCNPJ,
                  inputNome, selectOrdenar, ~toggleClusters)
  /\ status' = statusAfterPass(unidadesIsArray)
  /\ lastOp' = "toggleClusters"
  /\ UNCHANGED << loadVars, unidadesIsArray, boxes, selectEstado, inputCNPJ,
                  inputNome, selectOrdenar >>

clearedOrdenar_Keep(ord) == ord

\* document.getElementById('selectOrdenar').value = 'nome_az'
clearedOrdenar(ord) == "nome_az"

\* 'click' of #btnClearFilters
BtnClearFilters ==
  LET bx == [ i \in DOMAIN boxes |-> [ boxes[i] EXCEPT !.checked = TRUE ] ]
      ord == clearedOrdenar(selectOrdenar)
  IN  /\ pc # "start"
      /\ boxes' = bx
      /\ selectEstado' = Todos
      /\ inputCNPJ' = <<>>
      /\ inputNome' = <<>>
      /\ selectOrdenar' = ord
      /\ toggleClusters' = TRUE
      /\ clustersAtivos' = TRUE
      /\ applyFilters(unidades, unidadesIsArray, bx, Todos, <<>>, <<>>, ord, TRUE)
      /\ status' = statusAfterPass(unidadesIsArray)
      /\ lastOp' = "btnClear"
      /\ UNCHANGED << loadVars, unidadesIsArray >>

\* ------------------------------------------------------------------------
\* Initial load (initMap, carregarDados)
\* ------------------------------------------------------------------------
Failed == { "neterr", "parseerr", "notarray" }

fetchedAtStart_Both == { "redes", "all" }

\* const r = await fetch(ENDPOINT_REDES): the one request carregarDados
\* issues before its first suspension.
fetchedAtStart == { "redes" }

\* fetch() of the endpoints in es
issue(es) ==
  /\ req' = [ e \in Endpoints |-> IF e \in es THEN "inflight" ELSE req[e] ]
  /\ fetches' = [ e \in Endpoints |-> IF e \in es THEN fetches[e] + 1 ELSE fetches[e] ]

\* catch(err): the error status, nothing else
catch(e, how) ==
  /\ req' = [ req EXCEPT ![e] = how ]
  /\ status' = "Erro ao carregar dados."
  /\ pc' = "failed"
  /\ lastOp' = "carregarDados"
  /\ passes' = 0
  /\ UNCHANGED << fetches, controls, dataVars, mapVars, clustersAtivos >>

\* window 'load': the flat layer goes on the map, the listeners are bound,
\* carregarDados runs up to its first await.
initMap ==
  /\ pc = "start"
  /\ onMap' = onMap \cup { "markersLayer" }
  /\ status' = "Carregando dados..."
  /\ issue(fetchedAtStart)
  /\ pc' = "fetchRedes"
  /\ lastOp' = "initMap"
  /\ passes' = 0
  /\ UNCHANGED << redesRendered, controls, dataVars, unidadesAtuais,
                  clusterGroup, markersLayer, clustersAtivos >>

\* await fetch(...) resolves: r.json() starts reading the body
fetchResolves(at, next) ==
  /\ pc = at
  /\ pc' = next
  /\ UNCHANGED << req, fetches, redesRendered, controls, dataVars, mapVars,
                  clustersAtivos, status, lastOp, passes >>

RedesFetchResolves == fetchResolves("fetchRedes", "jsonRedes")

RedesFetchRejects ==
  /\ pc = "fetchRedes"
  /\ catch("redes", "neterr")
  /\ UNCHANGED redesRendered

RedesJsonRejects ==
  /\ pc = "jsonRedes"
  /\ catch("redes", "parseerr")
  /\ UNCHANGED redesRendered

\* The body is JSON but no array: renderRedes empties the two containers
\* and throws at redes.forEach.
RedesJsonNotArray ==
  /\ pc = "jsonRedes"
  /\ req' = [ req EXCEPT !["redes"] = "notarray" ]
  /\ redesRendered' = redesRendered + 1
  /\ boxes' = <<>>
  /\ status' = "Erro ao carregar dados."
  /\ pc' = "failed"
  /\ lastOp' = "carregarDados"
  /\ passes' = 0
  /\ UNCHANGED << fetches, selectEstado, inputCNPJ, inputNome, selectOrdenar,
                  toggleClusters, dataVars, mapVars, clustersAtivos >>

\* renderRedes(redes): one checked checkbox per network; then the unit
\* list is requested.
RedesJsonArray ==
  \E redes \in RedesLists :
    /\ pc = "jsonRedes"
    /\ boxes' = [ i \in DOMAIN redes |-> [ value |-> redes[i], checked |-> TRUE ] ]
    /\ redesRendered' = redesRendered + 1
    /\ req' = [ e \in Endpoints |->
                  IF e = "all" THEN "inflight"
                  ELSE IF e = "redes" THEN "ok" ELSE req[e] ]
    /\ fetches' = [ fetches EXCEPT !["all"] = fetches["all"] + 1 ]
    /\ pc' = "fetchAll"
    /\ lastOp' = "carregarDados"
    /\ passes' = 0
    /\ UNCHANGED << selectEstado, inputCNPJ, inputNome, selectOrdenar,
                    toggleClusters, dataVars, mapVars, clustersAtivos, status >>

AllFetchResolves == fetchResolves("fetchAll", "jsonAll")

AllFetchRejects ==
  /\ pc = "fetchAll"
  /\ catch("all", "neterr")
  /\ UNCHANGED redesRendered

AllJsonRejects ==
  /\ pc = "jsonAll"
  /\ catch("all", "parseerr")
  /\ UNCHANGED redesRendered

\* unidades = await uresp.json(); applyFilters(); status = 'Dados carregados.'
\* applyFilters is not awaited: what it throws never reaches the catch.
loaded(us, isArr, how) ==
  /\ pc = "jsonAll"
  /\ unidadesIsArray' = isArr
  /\ applyFilters(us, isArr, boxes, selectEstado, inputCNPJ, inputNome,
                  selectOrdenar, clustersAtivos)
  /\ req' = [ req EXCEPT !["all"] = how ]
  /\ status' = "Dados carregados."
  /\ pc' = "done"
  /\ lastOp' = "carregarDados"
  /\ UNCHANGED << fetches, redesRendered, controls, clustersAtivos >>

AllJsonArray == \E us \in UnitLists : loaded(us, TRUE, "ok")

\* The body is JSON but no array (an error object, null, a number).
AllJsonNotArray == loaded(<<>>, FALSE, "notarray")

\* ------------------------------------------------------------------------
\* Specification
\* ------------------------------------------------------------------------
Next ==
  \/ initMap
  \/ RedesFetchResolves
  \/ RedesFetchRejects
  \/ RedesJsonRejects
  \/ RedesJsonNotArray
  \/ RedesJsonArray
  \/ AllFetchResolves
  \/ AllFetchRejects
  \/ AllJsonRejects
  \/ AllJsonArray
  \/ AllJsonNotArray
  \/ BoxChange
  \/ EstadoChange
  \/ CNPJInput
  \/ NomeInput
  \/ OrdenarChange
  \/ onFiltroChange
  \/ ToggleClustersChange
  \/ BtnClearFilters

Spec == Init /\ [][Next]_vars

\* ------------------------------------------------------------------------
\* Observations used by the properties
\* ------------------------------------------------------------------------
\* The criteria a filter pass reads from the controls as they stand.
F == lerFiltrosForm(boxes, selectEstado, inputCNPJ, inputNome, selectOrdenar)

\* The markers the map shows: those of the layers attached to it.
visibleMarkers ==
     (IF "clusterGroup" \in onMap THEN clusterGroup ELSE <<>>)
  \o (IF "markersLayer" \in onMap THEN markersLayer ELSE <<>>)

\* The handler that ran last called applyFilters and the pass ran to its end.
PassCompleted == passes = 1 /\ unidadesIsArray

Count(list, u) == Cardinality({ i \in DOMAIN list : list[i] = u })

\* The same elements, each as many times.
SameUnits(a, b) ==
  \A u \in Range(a) \cup Range(b) : Count(a, u) = Count(b, u)

EqIgnoreCase(a, b) ==
  /\ Len(a) = Len(b)
  /\ \A i \in DOMAIN a : ToLowerChar(a[i]) = ToLowerChar(b[i])

ContainsIgnoreCase(s, sub) ==
  \E i \in 0 .. (Len(s) - Len(sub)) :
    EqIgnoreCase(SubSeq(s, i + 1, i + Len(sub)), sub)

OccursVerbatim(s, sub) ==
  \E i \in 0 .. (Len(s) - Len(sub)) :
    \A k \in 1 .. Len(sub) : s[i + k] = sub[k]

SortedByName(list) ==
  \A i, j \in DOMAIN list :
    i < j => localeCompare(OrEmpty(list[i].nome), OrEmpty(list[j].nome)) <= 0

AllChecked == \A i \in DOMAIN boxes : boxes[i].checked

Rendered(u) == u \in Range(unidadesAtuais)

\* ------------------------------------------------------------------------
\* Properties
\* ------------------------------------------------------------------------
othersThanRede(u) == estadoAccepts(u, F) /\ cnpjAccepts(u, F) /\ nomeAccepts(u, F)

\* C1 as stated: after a filter pass with no network checkbox checked, the
\* list handed to atualizarMapa is empty (stated for the case where there
\* are checkboxes, all of them unchecked).
C1_EmptySelectionShowsNothing ==
  (PassCompleted /\ boxes # <<>> /\ Len(F.redes) = 0) => unidadesAtuais = <<>>

\* C1 amended: after a filter pass with no network checkbox checked, the
\* network predicate rejects no unit: the list handed to atualizarMapa holds
\* exactly the units the state, CNPJ and name criteria accept.
C1_EmptySelectionFiltersNothing ==
  (PassCompleted /\ Len(F.redes) = 0) =>
    SameUnits(unidadesAtuais, SelectSeq(unidades, othersThanRede))

C1_Witness ==
  /\ PassCompleted
  /\ pc = "done"
  /\ Len(boxes) = 2
  /\ Len(F.redes) = 0
  /\ Len(unidadesAtuais) = 2

\* C2 as stated: when the initial load ends and one of its two requests
\* failed (network error, unparsable body, or JSON that is no array), the
\* status text is the error text, the map shows no marker, no unit list is
\* rendered and no endpoint was fetched more than once.
C2_FailedLoadReportsError ==
  ( /\ lastOp = "carregarDados"
    /\ pc \in { "done", "failed" }
    /\ \E e \in Endpoints : req[e] \in Failed )
  => /\ status = "Erro ao carregar dados."
     /\ visibleMarkers = <<>>
     /\ unidadesAtuais = <<>>
     /\ \A e \in Endpoints : fetches[e] <= 1

Defaults ==
  /\ AllChecked
  /\ selectEstado = Todos
  /\ inputCNPJ = <<>>
  /\ inputNome = <<>>
  /\ selectOrdenar = "nome_az"
  /\ toggleClusters
  /\ clustersAtivos

AfterClear == lastOp = "btnClear" /\ pc = "done" /\ unidadesIsArray

\* C3 as stated: after the clear-filters action on a loaded unit list, the
\* controls are at their defaults, one filter pass ran and the rendered list
\* holds every loaded unit, sorted by name ascending.
C3_ClearRendersEveryUnit ==
  AfterClear =>
    /\ Defaults
    /\ passes = 1
    /\ SameUnits(unidadesAtuais, unidades)
    /\ SortedByName(unidadesAtuais)

networkHasCheckbox(u) ==
  boxes = <<>> \/ \E i \in DOMAIN boxes : boxes[i].value = u.rede

\* C3 amended: after the clear-filters action on a loaded unit list, the
\* controls are at their defaults, one filter pass ran and the rendered list
\* holds every loaded unit whose network is the value of a network checkbox
\* (every loaded unit when there is no checkbox), sorted by name ascending.
C3_ClearRendersListedNetworks ==
  AfterClear =>
    /\ Defaults
    /\ passes = 1
    /\ SameUnits(unidadesAtuais, SelectSeq(unidades, networkHasCheckbox))
    /\ SortedByName(unidadesAtuais)

\* the clear action re-sorted a list of two units
C3_Witness ==
  /\ AfterClear
  /\ boxes # <<>>
  /\ Len(unidadesAtuais) = 2
  /\ unidadesAtuais # unidades

\* C4: once /unidades/all has been requested, /unidades/redes has answered
\* an array and renderRedes has run once on it; the two requests are never
\* in flight together.
C4_UnitsRequestedAfterRedesRendered ==
  /\ (fetches["all"] > 0 \/ req["all"] # "idle") =>
        (req["redes"] = "ok" /\ redesRendered = 1)
  /\ ~(req["redes"] = "inflight" /\ req["all"] = "inflight")

C4_Witness ==
  /\ req["all"] = "inflight"
  /\ Len(boxes) = 2
  /\ AllChecked

\* C5: the cluster layer and the flat layer are never both on the map, and
\* after a completed render pass exactly one is: the cluster layer when
\* clustersAtivos, the flat layer otherwise.
C5_LayersExclusive ==
  /\ ~({ "clusterGroup", "markersLayer" } \subseteq onMap)
  /\ PassCompleted =>
       onMap = (IF clustersAtivos THEN { "clusterGroup" } ELSE { "markersLayer" })

C5_Witness ==
  /\ PassCompleted
  /\ ~clustersAtivos
  /\ onMap = { "markersLayer" }
  /\ markersLayer # <<>>

hasCoord(c) == c # NoCoord

geocoded(u) == hasCoord(u.latitude) /\ hasCoord(u.longitude)

positionsOf(list) ==
  LET g == SelectSeq(list, geocoded)
  IN  [ i \in DOMAIN g |-> << g[i].latitude[1], g[i].longitude[1] >> ]

\* C6 as stated: after a render pass the flat layer holds exactly one marker
\* for each unit of the rendered list whose latitude and longitude are both
\* present and numeric, at that position, and none for the other units.
C6_OneMarkerPerGeocodedUnit ==
  PassCompleted => markersLayer = positionsOf(unidadesAtuais)

othersThanEstado(u) == redeAccepts(u, F) /\ cnpjAccepts(u, F) /\ nomeAccepts(u, F)

stateClaimed(u, sel) ==
  \/ u.estado # Null /\ EqIgnoreCase(u.estado, sel)
  \/ /\ u.endereco_original # Null
     /\ ContainsIgnoreCase(u.endereco_original, <<"-">> \o sel)

stateClaimedTrimmed(u, sel) ==
  \/ u.estado # Null /\ EqIgnoreCase(trim(u.estado), trim(sel))
  \/ /\ u.endereco_original # Null
     /\ ContainsIgnoreCase(u.endereco_original, <<"-">> \o trim(sel))

\* C7 as stated: after a filter pass, a unit the other criteria accept is
\* rendered iff 'Todos' is selected, or its state field equals the selected
\* state ignoring case, or its address contains '-' followed by the selected
\* state ignoring case.
C7_StateFilter ==
  PassCompleted =>
    \A u \in Range(unidades) :
      othersThanEstado(u) =>
        (Rendered(u) <=> (selectEstado = Todos \/ stateClaimed(u, selectEstado)))

\* C7 amended: after a filter pass, a unit the other criteria accept is
\* rendered iff 'Todos' is selected, or its state field equals the selected
\* state ignoring case and ignoring white space at both ends of either, or
\* its address contains '-' followed by the selected state ignoring case.
C7_StateFilterTrimmed ==
  PassCompleted =>
    \A u \in Range(unidades) :
      othersThanEstado(u) =>
        (Rendered(u) <=>
           (selectEstado = Todos \/ stateClaimedTrimmed(u, selectEstado)))

\* a unit is rendered because of its address alone, in another letter case
C7_Witness ==
  /\ PassCompleted
  /\ selectEstado = SP
  /\ \E u \in Range(unidadesAtuais) :
       u.estado = Null /\ u.endereco_original = <<"r","-","s","p">>

othersThanNome(u) == redeAccepts(u, F) /\ estadoAccepts(u, F) /\ cnpjAccepts(u, F)
othersThanCnpj(u) == redeAccepts(u, F) /\ estadoAccepts(u, F) /\ nomeAccepts(u, F)

nameClaimed(u) ==
  F.nome = <<>> \/ (u.nome # Null /\ ContainsIgnoreCase(u.nome, F.nome))

cnpjClaimed(u) ==
  F.cnpj = <<>> \/ (u.cnpj # Null /\ OccursVerbatim(u.cnpj, F.cnpj))

networkClaimedIgnoringCase(u) ==
  \/ Len(F.redes) = 0
  \/ \E i \in DOMAIN F.redes : u.rede # Null /\ EqIgnoreCase(u.rede, F.redes[i])

networkClaimedExact(u) ==
  \/ Len(F.redes) = 0
  \/ \E i \in DOMAIN F.redes : u.rede # Null /\ u.rede = F.redes[i]

\* C8 as stated: after a filter pass, among the units the other criteria
\* accept, the name criterion keeps the units whose name contains it ignoring
\* case, the network criterion keeps the units whose network equals a
\* selected network ignoring case, and the CNPJ criterion keeps the units
\* whose CNPJ contains it verbatim.
C8_CaseOfFilters ==
  PassCompleted =>
    \A u \in Range(unidades) :
      /\ othersThanNome(u) => (Rendered(u) <=> nameClaimed(u))
      /\ othersThanRede(u) => (Rendered(u) <=> networkClaimedIgnoringCase(u))
      /\ othersThanCnpj(u) => (Rendered(u) <=> cnpjClaimed(u))

\* C8 amended: as stated for the name and the CNPJ criteria; the network
\* criterion keeps the units whose network equals a selected network exactly,
\* letter case included.
C8_CaseOfFiltersExactNetwork ==
  PassCompleted =>
    \A u \in Range(unidades) :
      /\ othersThanNome(u) => (Rendered(u) <=> nameClaimed(u))
      /\ othersThanRede(u) => (Rendered(u) <=> networkClaimedExact(u))
      /\ othersThanCnpj(u) => (Rendered(u) <=> cnpjClaimed(u))

\* a unit is rendered whose name holds the criterion in another letter case
C8_Witness ==
  /\ PassCompleted
  /\ F.nome = <<"A","L">>
  /\ F.cnpj = <<"1","A">>
  /\ Len(F.redes) > 0
  /\ \E u \in Range(unidadesAtuais) : u.nome = <<"A","l">>

\* C9: a step that flips the clustering toggle and leaves the unit list and
\* the filter controls as they were leaves the markers on the map as they
\* were: the same positions, each as often, and after a completed pass the
\* markers of the rendered list.
C9_ToggleKeepsMarkers ==
  [][ ( /\ toggleClusters' # toggleClusters
        /\ UNCHANGED << boxes, selectEstado, inputCNPJ, inputNome,
                        selectOrdenar, unidades, unidadesIsArray >> )
      => /\ visibleMarkers' = visibleMarkers
         /\ unidadesIsArray => visibleMarkers' = markersOf(unidadesAtuais') ]_vars

\* clustering toggled off and on again on a loaded list (the toggle starts
\* checked, so the step that checks it follows one that unchecked it)
C9_Witness ==
  /\ pc = "done"
  /\ PassCompleted
  /\ lastOp = "toggleClusters"
  /\ clustersAtivos
  /\ Len(visibleMarkers) = 2

\* C10: once the load has ended no step changes the loaded unit list, and
\* the rendered list holds only units of the loaded list.
C10_UnidadesNeverModified ==
  [][ /\ pc = "done" => (unidades' = unidades /\ unidadesIsArray' = unidadesIsArray)
      /\ Range(unidadesAtuais') \subseteq Range(unidades') ]_vars

\* a pass sorted its copy into another order than the loaded list's
C10_Witness ==
  /\ pc = "done"
  /\ PassCompleted
  /\ lastOp = "onFiltroChange"
  /\ Len(unidadesAtuais) = 2
  /\ unidadesAtuais[1] = unidades[2]
  /\ unidadesAtuais[2] = unidades[1]
  /\ unidades[1] # unidades[2]

=============================================================================
